---- MODULE Spec2Model ----
(***************************************************************************)
(* A model of the Testmail.app helper for CodeceptJS (src/src/index.ts).   *)
(*                                                                         *)
(* The helper keeps one "current" inbox (lastUsedInbox), creates inbox     *)
(* objects with haveInbox, and polls the remote service with receiveEmails *)
(* / receiveEmail.  Strings are sequences of one-character strings, so     *)
(* that the regular expression of haveInbox is computed, not assumed.      *)
(*                                                                         *)
(* Environment (not code of the repository):                               *)
(*  - Date.now() reads one clock, `now`, that never runs backwards and is  *)
(*    positive; several events may fall into the same millisecond.         *)
(*  - The remote service stamps an email with the clock on arrival and     *)
(*    answers a query with the emails of (namespace, tag) received after   *)
(*    timestamp_from, or with a failure.                                   *)
(***************************************************************************)
EXTENDS Integers, Sequences, FiniteSets, TLC

VARIABLES
    sleepDelay,      \* this.sleepDelay (ms), set by the constructor
    defaultTimeout,  \* this.defaultTimeout (ms), set by the constructor
    tagLength,       \* this.tagLength, set by the constructor
    now,             \* the clock Date.now() reads
    handles,         \* the inbox objects haveInbox has created, in creation order
    lastUsedInbox,   \* this.lastUsedInbox: index into handles, 0 = undefined
    lastHave,        \* the latest haveInbox call: its argument and its outcome
    mailbox,         \* the remote service: the emails received, in arrival order
    call,            \* per task: the receiveEmails / receiveEmail call it runs
    delivered,       \* per email of the mailbox: the inbox objects whose calls
                     \* have returned it to a caller (history)
    arg              \* the address a caller is about to hand to haveInbox

vars == <<sleepDelay, defaultTimeout, tagLength, now, handles, lastUsedInbox,
          lastHave, mailbox, call, delivered, arg>>

(***************************************************************************)
(* Bounds of the model.                                                    *)
(***************************************************************************)
MaxNow == 3
MaxHandles == 2
MaxEmails == 2
MaxTimeout == 2

\* The tasks that can run a call; SeqTasks are those that do under Spec.
Tasks == {1, 2}
SeqTasks == {1}

\* Configuration values handed to the constructor (seconds / characters).
ConfigSleepDelays == {1, 2}
ConfigDefaultTimeouts == {2}
ConfigTagLengths == {1}

(***************************************************************************)
(* Characters and strings.                                                 *)
(***************************************************************************)
Lower == {"a","b","c","d","e","f","g","h","i","j","k","l","m",
          "n","o","p","q","r","s","t","u","v","w","x","y","z"}
Upper == {"A","B","C","D","E","F","G","H","I","J","K","L","M",
          "N","O","P","Q","R","S","T","U","V","W","X","Y","Z"}
Digit == {"0","1","2","3","4","5","6","7","8","9"}

\* The character class [a-zA-Z0-9] of emailPattern.
AlnumClass == Lower \cup Upper \cup Digit

\* The characters the "." of a JavaScript regular expression does not match.
LineTerminators == {"\n", "\r"}

msInSecond == 1000

\* randomCharSet of util/common: the characters a generated tag is drawn from.
randomCharSet == Digit \cup Lower

\* The characters the model draws generated tags from.
RandomChars == {"0", "z"}

\* randomString(length): the strings it can return (here over RandomChars).
RECURSIVE randomString(_)
randomString(length) ==
    IF length <= 0 THEN {<<>>}
    ELSE {<<c>> \o r : c \in RandomChars \cap randomCharSet, r \in randomString(length - 1)}

(***************************************************************************)
(* emailPattern = /([a-zA-Z0-9]+).([a-zA-Z0-9]+)@inbox.testmail.app/       *)
(* The pattern is not anchored and its dots are not escaped: each "." is   *)
(* the wildcard.  Wild stands for that wildcard in the pattern's tail.     *)
(***************************************************************************)
Wild == "any"

PatternTail ==
    <<"@","i","n","b","o","x",Wild,"t","e","s","t","m","a","i","l",Wild,"a","p","p">>

AtomMatches(atom, c) ==
    IF atom = Wild THEN c \notin LineTerminators ELSE c = atom

SubStr(s, i, k) == [j \in 1..k |-> s[i + j - 1]]

NoMatch == [found |-> FALSE, whole |-> <<>>, g1 |-> <<>>, g2 |-> <<>>]

\* The length of the longest run of [a-zA-Z0-9] characters of s that starts at i.
RECURSIVE RunLength(_, _)
RunLength(s, i) ==
    IF i <= Len(s) /\ s[i] \in AlnumClass THEN 1 + RunLength(s, i + 1) ELSE 0

\* The pattern's tail matches s at position p.
TailAt(s, p) ==
    /\ p >= 1
    /\ p + Len(PatternTail) - 1 <= Len(s)
    /\ \A k \in 1..Len(PatternTail) : AtomMatches(PatternTail[k], s[p + k - 1])

\* Group 2 at j, tried from n2 characters downwards (greedy): the length that
\* lets the tail match, or 0.
RECURSIVE TryGroup2(_, _, _)
TryGroup2(s, j, n2) ==
    IF n2 < 1 THEN 0
    ELSE IF TailAt(s, j + n2) THEN n2
    ELSE TryGroup2(s, j, n2 - 1)

\* Group 1 at i, tried from n1 characters downwards (greedy), then the wildcard,
\* then group 2: <<n1, n2>> of the first success, or <<0, 0>>.
RECURSIVE TryGroup1(_, _, _)
TryGroup1(s, i, n1) ==
    IF n1 < 1 THEN <<0, 0>>
    ELSE LET j == i + n1 + 1
             n2 == IF i + n1 <= Len(s) /\ AtomMatches(Wild, s[i + n1])
                   THEN TryGroup2(s, j, RunLength(s, j))
                   ELSE 0
         IN  IF n2 > 0 THEN <<n1, n2>> ELSE TryGroup1(s, i, n1 - 1)

\* The match attempted at start positions i, i + 1, ...: the leftmost wins.
RECURSIVE TryFrom(_, _)
TryFrom(s, i) ==
    IF i > Len(s) THEN NoMatch
    ELSE LET m == TryGroup1(s, i, RunLength(s, i))
         IN  IF m[1] > 0
             THEN [found |-> TRUE,
                   whole |-> SubStr(s, i, m[1] + 1 + m[2] + Len(PatternTail)),
                   g1    |-> SubStr(s, i, m[1]),
                   g2    |-> SubStr(s, i + m[1] + 1, m[2])]
             ELSE TryFrom(s, i + 1)

\* emailPattern.exec(s): the leftmost match, each group greedy (backtracking order).
emailPatternExec(s) == TryFrom(s, 1)

(***************************************************************************)
(* Inputs.                                                                 *)
(***************************************************************************)
\* The literal domain of the template string that builds inbox.email.
InboxDomain ==
    <<"@","i","n","b","o","x",".","t","e","s","t","m","a","i","l",".","a","p","p">>

\* this.config.namespace (required by the constructor, hence not empty).
ConfigNamespace == <<"n","s">>

AddrValid == <<"a",".","b">> \o InboxDomain
AddrForeign == <<"a","@","b",".","c","o","m">>
AddrEvil == <<"a",".","b">> \o InboxDomain \o <<".","e","v","i","l",".","c","o","m">>

\* The addresses handed to haveInbox; <<>> is "no argument" (null, undefined or '').
SpecAddresses == {<<>>, AddrValid, AddrForeign, AddrEvil}

\* The timeout argument of receiveEmails: omitted, or a number of seconds.
TimeoutOmitted == [given |-> FALSE, value |-> 0]
TimeoutArgs ==
    {TimeoutOmitted} \cup {[given |-> TRUE, value |-> v] : v \in 0..MaxTimeout}

\* An inbox object: the fields haveInbox sets.  A missing field is its falsy value.
NoObject == [tag |-> <<>>, namespace |-> <<>>, timestamp |-> 0, email |-> <<>>]

\* Objects a caller can hand over that lack one of tag, namespace, timestamp.
MalformedInboxes ==
    {[tag |-> <<>>, namespace |-> <<"a">>, timestamp |-> 1, email |-> <<>>],
     [tag |-> <<"b">>, namespace |-> <<>>, timestamp |-> 1, email |-> <<>>],
     [tag |-> <<"b">>, namespace |-> <<"a">>, timestamp |-> 0, email |-> <<>>]}

\* The inbox argument of receiveEmails: omitted, an object haveInbox returned
\* (ref, its index in handles), or a malformed object (ref = 0).
InboxOmitted == [given |-> FALSE, ref |-> 0, obj |-> NoObject]
InboxArgs ==
    {InboxOmitted}
    \cup {[given |-> TRUE, ref |-> i, obj |-> NoObject] : i \in 1..Len(handles)}
    \cup {[given |-> TRUE, ref |-> 0, obj |-> o] : o \in MalformedInboxes}

(***************************************************************************)
(* The transport (client.request) and the remote service behind it.        *)
(***************************************************************************)
NoRequest == [namespace |-> <<>>, tag |-> <<>>, timestamp_from |-> 0]
NoData == [inbox |-> FALSE, result |-> "", hasEmails |-> FALSE, emails |-> <<>>]

Range(f) == {f[i] : i \in DOMAIN f}

Response(result, emails) ==
    [inbox |-> TRUE, result |-> result, hasEmails |-> TRUE, emails |-> emails]

\* Responses that carry no usable list: no inbox data, a failure reported by
\* the service, success without an emails field.
FailureResponses ==
    {NoData,
     Response("error", <<>>),
     [inbox |-> TRUE, result |-> "success", hasEmails |-> FALSE, emails |-> <<>>]}

\* What a transport that is not bound to any mailbox (a mock) can resolve to.
\* Emails are opaque to the helper; they are numbered.
MockResponses ==
    FailureResponses
    \cup {Response("success", l) : l \in {<<>>, <<1>>, <<2, 1>>}}

\* The emails (by arrival index) of the queried inbox received after timestamp_from.
ServiceMatches(req) ==
    {i \in 1..Len(mailbox) :
        /\ mailbox[i].namespace = req.namespace
        /\ mailbox[i].tag = req.tag
        /\ mailbox[i].timestamp > req.timestamp_from}

\* The orders the service can list a set of emails in: oldest or newest first.
RECURSIVE Ascending(_)
Ascending(S) ==
    IF S = {} THEN <<>>
    ELSE LET m == CHOOSE x \in S : \A y \in S : x <= y
         IN  <<m>> \o Ascending(S \ {m})

Reverse(s) == [i \in 1..Len(s) |-> s[Len(s) + 1 - i]]

\* What the remote service answers to a query: a failure, or success with the
\* matching emails.
ServiceResponses(req) ==
    {Response("error", <<>>)}
    \cup {Response("success", l) :
            l \in {Ascending(ServiceMatches(req)), Reverse(Ascending(ServiceMatches(req)))}}

(***************************************************************************)
(* Construction.                                                           *)
(***************************************************************************)
IdleCall ==
    [pc |-> "idle", kind |-> "receiveEmails",
     inboxArg |-> InboxOmitted, timeoutArg |-> TimeoutOmitted,
     inbox |-> 0, budget |-> 0, currentTimeout |-> 0,
     request |-> NoRequest, data |-> NoData,
     result |-> <<>>, error |-> "",
     queries |-> 0, waits |-> 0, notYet |-> ""]

\* No haveInbox call yet.  A call is recorded with its argument, its error (""
\* if none), the index of the inbox it returned and that inbox's creation time.
NoHave == [called |-> FALSE, arg |-> <<>>, error |-> "", inbox |-> 0, created |-> 0]

\* The constructor: a configured number when it is truthy, else the default.
ConfiguredOr(value, default) == IF value # 0 THEN value ELSE default

constructor(cfgSleepDelay, cfgDefaultTimeout, cfgTagLength) ==
    /\ sleepDelay = ConfiguredOr(cfgSleepDelay, 5) * msInSecond
    /\ tagLength = ConfiguredOr(cfgTagLength, 8)
    /\ defaultTimeout = ConfiguredOr(cfgDefaultTimeout, 240) * msInSecond
    /\ lastUsedInbox = 0

Init ==
    /\ \E d \in ConfigSleepDelays, dt \in ConfigDefaultTimeouts, tl \in ConfigTagLengths :
          constructor(d, dt, tl)
    /\ now = 1
    /\ handles = <<>>
    /\ lastHave = NoHave
    /\ mailbox = <<>>
    /\ call = [t \in Tasks |-> IdleCall]
    /\ delivered = <<>>
    /\ arg = <<>>

(***************************************************************************)
(* haveInbox                                                               *)
(***************************************************************************)
\* haveInboxParse reading the match one index too low (match[0], match[1]).
haveInboxParseOffByOne(email, generated) ==
    IF email # <<>>
    THEN LET match == emailPatternExec(email)
         IN  IF match.found
             THEN [ok |-> TRUE, namespace |-> match.whole, tag |-> match.g1]
             ELSE [ok |-> FALSE, namespace |-> <<>>, tag |-> <<>>]
    ELSE [ok |-> TRUE, namespace |-> ConfigNamespace, tag |-> generated]

\* Lines 118-132: namespace and tag of the new inbox, or the format error.
haveInboxParse(email, generated) ==
    IF email # <<>>
    THEN LET match == emailPatternExec(email)
         IN  IF match.found
             THEN [ok |-> TRUE, namespace |-> match.g1, tag |-> match.g2]
             ELSE [ok |-> FALSE, namespace |-> <<>>, tag |-> <<>>]
    ELSE [ok |-> TRUE, namespace |-> ConfigNamespace, tag |-> generated]

\* NewInbox keeping the address it was given instead of composing it anew.
NewInboxKeepsEmail(namespace, tag, email) ==
    [tag |-> tag,
     namespace |-> namespace,
     timestamp |-> now,
     email |-> IF email # <<>> THEN email ELSE namespace \o <<".">> \o tag \o InboxDomain]

\* Lines 134-144: the inbox object (email is the argument haveInbox was given).
NewInbox(namespace, tag, email) ==
    [tag |-> tag,
     namespace |-> namespace,
     timestamp |-> now,
     email |-> namespace \o <<".">> \o tag \o InboxDomain]

\* haveInbox dropping the current inbox when the address is rejected.
haveInboxClearsCurrent(email) ==
    \E generated \in randomString(tagLength) :
        LET parsed == haveInboxParse(email, generated)
        IN  IF parsed.ok
            THEN /\ Len(handles) < MaxHandles
                 /\ handles' = Append(handles, NewInbox(parsed.namespace, parsed.tag, email))
                 /\ lastUsedInbox' = Len(handles) + 1
                 /\ lastHave' = [called |-> TRUE, arg |-> email, error |-> "",
                                 inbox |-> Len(handles) + 1, created |-> now]
                 /\ UNCHANGED <<sleepDelay, defaultTimeout, tagLength, now, mailbox, call,
                                delivered, arg>>
            ELSE /\ lastHave' = [called |-> TRUE, arg |-> email,
                                 error |-> "InvalidAddressFormat", inbox |-> 0, created |-> 0]
                 /\ lastUsedInbox' = 0
                 /\ UNCHANGED <<sleepDelay, defaultTimeout, tagLength, now, handles,
                                mailbox, call, delivered, arg>>

\* Lines 117-147.
haveInbox(email) ==
    \E generated \in randomString(tagLength) :
        LET parsed == haveInboxParse(email, generated)
        IN  IF parsed.ok
            THEN /\ Len(handles) < MaxHandles
                 /\ handles' = Append(handles, NewInbox(parsed.namespace, parsed.tag, email))
                 /\ lastUsedInbox' = Len(handles) + 1
                 /\ lastHave' = [called |-> TRUE, arg |-> email, error |-> "",
                                 inbox |-> Len(handles) + 1, created |-> now]
                 /\ UNCHANGED <<sleepDelay, defaultTimeout, tagLength, now, mailbox, call,
                                delivered, arg>>
            ELSE /\ lastHave' = [called |-> TRUE, arg |-> email,
                                 error |-> "InvalidAddressFormat", inbox |-> 0, created |-> 0]
                 /\ UNCHANGED <<sleepDelay, defaultTimeout, tagLength, now, handles,
                                lastUsedInbox, mailbox, call, delivered, arg>>

HaveInboxCall == \E email \in SpecAddresses : haveInbox(email)

(***************************************************************************)
(* receiveEmails / receiveEmail                                            *)
(***************************************************************************)
CallKinds == {"receiveEmails", "receiveEmail"}

\* The model's counters stop counting at MaxCount and the remaining budget
\* stops growing at MaxBudget.  With a positive sleepDelay neither is reached
\* (a call makes at most MaxTimeout queries); with a negative one the budget
\* grows at every poll, and beyond MaxBudget only its being positive matters.
MaxCount == MaxTimeout + 2
MaxBudget == (MaxTimeout + 1) * msInSecond

Counted(n) == IF n < MaxCount THEN n + 1 ELSE n

\* Line 197: currentTimeout -= this.sleepDelay.
Charged(currentTimeout) ==
    IF currentTimeout - sleepDelay > MaxBudget THEN MaxBudget ELSE currentTimeout - sleepDelay

\* Lines 172-177: the polling budget in milliseconds.
PrepareTimeout(timeout) ==
    IF ~timeout.given \/ timeout.value = 0
    THEN defaultTimeout
    ELSE timeout.value * msInSecond

\* PrepareInboxRef ignoring the argument: always the current inbox.
PrepareInboxRefCurrentOnly(inbox) == lastUsedInbox

\* Lines 179-182: the object polled, as an index into handles (0: none of them).
PrepareInboxRef(inbox) == IF inbox.given THEN inbox.ref ELSE lastUsedInbox

PrepareInboxObject(inbox) ==
    IF PrepareInboxRef(inbox) > 0 THEN handles[PrepareInboxRef(inbox)]
    ELSE IF inbox.given THEN inbox.obj ELSE NoObject

\* InboxInvalid without its check of the timestamp.
InboxInvalidNoTimestamp(inbox) ==
    LET o == PrepareInboxObject(inbox)
    IN  \/ ~inbox.given /\ lastUsedInbox = 0
        \/ o.tag = <<>>
        \/ o.namespace = <<>>

\* Lines 184-189: the condition of the "No/invalid inbox" error.
InboxInvalid(inbox) ==
    LET o == PrepareInboxObject(inbox)
    IN  \/ ~inbox.given /\ lastUsedInbox = 0
        \/ o.tag = <<>>
        \/ o.namespace = <<>>
        \/ o.timestamp = 0

\* receiveEmailsStart holding a lock on the inbox: no call starts on an inbox
\* on which another task's call is still polling.
receiveEmailsStartExclusive(t, kind, inbox, timeout) ==
    LET budget == PrepareTimeout(timeout)
        ref == PrepareInboxRef(inbox)
        base == [IdleCall EXCEPT !.kind = kind, !.inboxArg = inbox, !.timeoutArg = timeout]
    IN  /\ call[t].pc \in {"idle", "returned", "failed"}
        /\ \A u \in Tasks \ {t} :
              ~(call[u].pc \in {"sleeping", "requested", "responded"} /\ call[u].inbox = ref)
        /\ call' = [call EXCEPT ![t] =
              IF InboxInvalid(inbox)
              THEN [base EXCEPT !.pc = "failed", !.error = "NoInboxAvailable"]
              ELSE IF budget > 0
              THEN [base EXCEPT !.pc = "sleeping", !.inbox = ref, !.budget = budget,
                                !.currentTimeout = budget, !.waits = 1]
              ELSE [base EXCEPT !.pc = "failed", !.error = "EmailTimeout", !.inbox = ref,
                                !.budget = budget, !.currentTimeout = budget]]
        /\ UNCHANGED <<sleepDelay, defaultTimeout, tagLength, now, handles, lastUsedInbox,
                       lastHave, mailbox, delivered, arg>>

\* The call up to its first await: lines 168-196.  The call record keeps the
\* arguments until the first query is sent and the budget to the end.
receiveEmailsStart(t, kind, inbox, timeout) ==
    LET budget == PrepareTimeout(timeout)
        ref == PrepareInboxRef(inbox)
        base == [IdleCall EXCEPT !.kind = kind, !.inboxArg = inbox, !.timeoutArg = timeout]
    IN  /\ call[t].pc \in {"idle", "returned", "failed"}
        /\ call' = [call EXCEPT ![t] =
              IF InboxInvalid(inbox)
              THEN [base EXCEPT !.pc = "failed", !.error = "NoInboxAvailable"]
              ELSE IF budget > 0
              THEN [base EXCEPT !.pc = "sleeping", !.inbox = ref, !.budget = budget,
                                !.currentTimeout = budget, !.waits = 1]
              ELSE [base EXCEPT !.pc = "failed", !.error = "EmailTimeout", !.inbox = ref,
                                !.budget = budget, !.currentTimeout = budget]]
        /\ UNCHANGED <<sleepDelay, defaultTimeout, tagLength, now, handles, lastUsedInbox,
                       lastHave, mailbox, delivered, arg>>

ReceiveCall ==
    \E t \in SeqTasks, kind \in CallKinds, inbox \in InboxArgs, timeout \in TimeoutArgs :
        receiveEmailsStart(t, kind, inbox, timeout)

\* SleepDone building the query from this.lastUsedInbox instead of the
\* inbox the call resolved when it started.
SleepDoneCurrentInbox(t) ==
    LET c == call[t]
        o == handles[lastUsedInbox]
    IN  /\ c.pc = "sleeping"
        /\ call' = [call EXCEPT ![t] =
              [c EXCEPT !.pc = "requested",
                        !.inboxArg = InboxOmitted, !.timeoutArg = TimeoutOmitted,
                        !.currentTimeout = Charged(c.currentTimeout),
                        !.request = [namespace |-> o.namespace, tag |-> o.tag,
                                     timestamp_from |-> o.timestamp],
                        !.queries = Counted(c.queries)]]
        /\ UNCHANGED <<sleepDelay, defaultTimeout, tagLength, now, handles, lastUsedInbox,
                       lastHave, mailbox, delivered, arg>>

\* The sleep ends: lines 197-219, the budget is charged and the query is sent.
SleepDone(t) ==
    LET c == call[t]
        o == handles[c.inbox]
    IN  /\ c.pc = "sleeping"
        /\ call' = [call EXCEPT ![t] =
              [c EXCEPT !.pc = "requested",
                        !.inboxArg = InboxOmitted, !.timeoutArg = TimeoutOmitted,
                        !.currentTimeout = Charged(c.currentTimeout),
                        !.request = [namespace |-> o.namespace, tag |-> o.tag,
                                     timestamp_from |-> o.timestamp],
                        !.queries = Counted(c.queries)]]
        /\ UNCHANGED <<sleepDelay, defaultTimeout, tagLength, now, handles, lastUsedInbox,
                       lastHave, mailbox, delivered, arg>>

\* client.request resolves with one of the given responses.
RequestResolves(t, responses) ==
    LET c == call[t]
    IN  /\ c.pc = "requested"
        /\ \E d \in responses :
              call' = [call EXCEPT ![t] = [c EXCEPT !.pc = "responded", !.data = d]]
        /\ UNCHANGED <<sleepDelay, defaultTimeout, tagLength, now, handles, lastUsedInbox,
                       lastHave, mailbox, delivered, arg>>

\* A transport bound to no mailbox answers.
TransportAnswers(t) == RequestResolves(t, MockResponses)

\* The remote service evaluates the query now and its answer comes back.
ServiceAnswers(t) == RequestResolves(t, ServiceResponses(call[t].request))

\* Lines 221-226: the response ends the call.
ResponseHasEmails(data) ==
    /\ data.inbox
    /\ data.result = "success"
    /\ data.hasEmails
    /\ Len(data.emails) > 0

\* How a response that does not end the call reads: a failure, or no email yet.
ResponseKind(data) ==
    IF data.inbox /\ data.result = "success" /\ data.hasEmails THEN "empty" ELSE "failure"

\* Returned with receiveEmail taking the last element of the list.
ReturnedLast(kind, emails) ==
    IF kind = "receiveEmail" THEN <<emails[Len(emails)]>> ELSE emails

\* Returned handing every caller the first element only.
ReturnedFirstOnly(kind, emails) == <<emails[1]>>

\* What the caller gets: the list (receiveEmails, line 228) or its first
\* element (receiveEmail, line 256), kept as a list of one.
Returned(kind, emails) == IF kind = "receiveEmail" THEN <<emails[1]>> ELSE emails

\* SuccessTimestamp taking the arrival time of the newest email of the response.
SuccessTimestampNewestEmail(c) ==
    LET S == {mailbox[i].timestamp : i \in Range(c.data.emails)}
    IN  CHOOSE m \in S : \A x \in S : x <= m

\* SuccessTimestamp leaving the watermark where it was.
SuccessTimestampStale(c) == handles[c.inbox].timestamp

\* Line 227: the watermark a successful poll sets.
SuccessTimestamp(c) == now

\* AfterNotYet sending the next query at once, its sleep not awaited.
AfterNotYetNoWait(c) ==
    IF c.currentTimeout > 0
    THEN [c EXCEPT !.pc = "requested", !.queries = Counted(c.queries),
                   !.currentTimeout = Charged(c.currentTimeout), !.data = NoData,
                   !.notYet = ResponseKind(c.data)]
    ELSE [c EXCEPT !.pc = "failed", !.error = "EmailTimeout",
                   !.request = NoRequest, !.data = NoData,
                   !.notYet = ResponseKind(c.data)]

\* AfterNotYet with the loop condition currentTimeout >= 0.
AfterNotYetInclusive(c) ==
    IF c.currentTimeout >= 0
    THEN [c EXCEPT !.pc = "sleeping", !.waits = Counted(c.waits), !.data = NoData,
                   !.notYet = ResponseKind(c.data)]
    ELSE [c EXCEPT !.pc = "failed", !.error = "EmailTimeout",
                   !.request = NoRequest, !.data = NoData,
                   !.notYet = ResponseKind(c.data)]

\* AfterNotYet raising at once when the service reports a failure.
AfterNotYetSurfacesFailure(c) ==
    IF ResponseKind(c.data) = "failure"
    THEN [c EXCEPT !.pc = "failed", !.error = "ServiceFailure",
                   !.request = NoRequest, !.data = NoData,
                   !.notYet = ResponseKind(c.data)]
    ELSE IF c.currentTimeout > 0
    THEN [c EXCEPT !.pc = "sleeping", !.waits = Counted(c.waits), !.data = NoData,
                   !.notYet = ResponseKind(c.data)]
    ELSE [c EXCEPT !.pc = "failed", !.error = "EmailTimeout",
                   !.request = NoRequest, !.data = NoData,
                   !.notYet = ResponseKind(c.data)]

\* Lines 195 and 232: after a response that does not end the call, the loop
\* condition decides between the next wait and the timeout error.
AfterNotYet(c) ==
    IF c.currentTimeout > 0
    THEN [c EXCEPT !.pc = "sleeping", !.waits = Counted(c.waits), !.data = NoData,
                   !.notYet = ResponseKind(c.data)]
    ELSE [c EXCEPT !.pc = "failed", !.error = "EmailTimeout",
                   !.request = NoRequest, !.data = NoData,
                   !.notYet = ResponseKind(c.data)]

\* HandleResponse moving the watermark before it has judged the response.
HandleResponseStampsFirst(t) ==
    LET c == call[t]
    IN  /\ c.pc = "responded"
        /\ handles' = [handles EXCEPT ![c.inbox].timestamp = SuccessTimestamp(c)]
        /\ IF ResponseHasEmails(c.data)
           THEN /\ call' = [call EXCEPT ![t] =
                      [c EXCEPT !.pc = "returned",
                                !.result = Returned(c.kind, c.data.emails),
                                !.request = NoRequest, !.data = NoData]]
                /\ delivered' = [i \in DOMAIN delivered |->
                      IF i \in Range(Returned(c.kind, c.data.emails))
                      THEN delivered[i] \cup {c.inbox}
                      ELSE delivered[i]]
           ELSE /\ call' = [call EXCEPT ![t] = AfterNotYet(c)]
                /\ UNCHANGED delivered
        /\ UNCHANGED <<sleepDelay, defaultTimeout, tagLength, now, lastUsedInbox,
                       lastHave, mailbox, arg>>

\* Lines 221-232 (and 255-256): the response is judged.
HandleResponse(t) ==
    LET c == call[t]
    IN  /\ c.pc = "responded"
        /\ IF ResponseHasEmails(c.data)
           THEN /\ handles' = [handles EXCEPT ![c.inbox].timestamp = SuccessTimestamp(c)]
                /\ call' = [call EXCEPT ![t] =
                      [c EXCEPT !.pc = "returned",
                                !.result = Returned(c.kind, c.data.emails),
                                !.request = NoRequest, !.data = NoData]]
                /\ delivered' = [i \in DOMAIN delivered |->
                      IF i \in Range(Returned(c.kind, c.data.emails))
                      THEN delivered[i] \cup {c.inbox}
                      ELSE delivered[i]]
           ELSE /\ call' = [call EXCEPT ![t] = AfterNotYet(c)]
                /\ UNCHANGED <<handles, delivered>>
        /\ UNCHANGED <<sleepDelay, defaultTimeout, tagLength, now, lastUsedInbox,
                       lastHave, mailbox, arg>>

(***************************************************************************)
(* The environment: the clock and the arrival of emails.                   *)
(***************************************************************************)
Tick ==
    /\ now < MaxNow
    /\ now' = now + 1
    /\ UNCHANGED <<sleepDelay, defaultTimeout, tagLength, handles, lastUsedInbox,
                   lastHave, mailbox, call, delivered, arg>>

EmailArrives ==
    /\ Len(mailbox) < MaxEmails
    /\ \E h \in 1..Len(handles) :
          mailbox' = Append(mailbox, [namespace |-> handles[h].namespace,
                                      tag |-> handles[h].tag,
                                      timestamp |-> now])
    /\ delivered' = Append(delivered, {})
    /\ UNCHANGED <<sleepDelay, defaultTimeout, tagLength, now, handles, lastUsedInbox,
                   lastHave, call, arg>>

(***************************************************************************)
(* Spec: the helper's operations in any order, one call at a time, over a  *)
(* transport that may answer anything.                                     *)
(***************************************************************************)
Next ==
    \/ HaveInboxCall
    \/ ReceiveCall
    \/ \E t \in SeqTasks : SleepDone(t)
    \/ \E t \in SeqTasks : TransportAnswers(t)
    \/ \E t \in SeqTasks : HandleResponse(t)
    \/ Tick

Spec == Init /\ [][Next]_vars

(***************************************************************************)
(* SpecInbox: one inbox, opened without an address, polled by successive   *)
(* receiveEmails calls over a transport bound to the remote service.       *)
(***************************************************************************)
HaveFirstInbox == handles = <<>> /\ haveInbox(<<>>)

ReceiveEmailsCall ==
    \E t \in SeqTasks, inbox \in {InboxOmitted, [given |-> TRUE, ref |-> 1, obj |-> NoObject]},
       timeout \in TimeoutArgs :
        /\ handles # <<>>
        /\ receiveEmailsStart(t, "receiveEmails", inbox, timeout)

NextInbox ==
    \/ HaveFirstInbox
    \/ ReceiveEmailsCall
    \/ \E t \in SeqTasks : SleepDone(t)
    \/ \E t \in SeqTasks : ServiceAnswers(t)
    \/ \E t \in SeqTasks : HandleResponse(t)
    \/ Tick
    \/ EmailArrives

SpecInbox == Init /\ [][NextInbox]_vars

(***************************************************************************)
(* SpecRace: one inbox, polled by two tasks whose calls run concurrently    *)
(* (each await lets the other task run) over the remote service.           *)
(***************************************************************************)
ReceiveRaceCall ==
    \E t \in Tasks, kind \in CallKinds, timeout \in TimeoutArgs :
        /\ handles # <<>>
        /\ receiveEmailsStart(t, kind, InboxOmitted, timeout)

NextRace ==
    \/ HaveFirstInbox
    \/ ReceiveRaceCall
    \/ \E t \in Tasks : SleepDone(t)
    \/ \E t \in Tasks : ServiceAnswers(t)
    \/ \E t \in Tasks : HandleResponse(t)
    \/ Tick
    \/ EmailArrives

SpecRace == Init /\ [][NextRace]_vars

(***************************************************************************)
(* SpecPair: receiveEmails (task 1) and receiveEmail (task 2) given the     *)
(* same arguments, the same clock readings and the same transport          *)
(* responses.  Two inbox objects are created alike, one for each call; a   *)
(* call without an inbox argument polls the current one in both tasks.     *)
(***************************************************************************)
HavePairInbox == Len(handles) < 2 /\ haveInbox(AddrValid)

\* The inbox arguments of task 1, and the argument that mirrors it for task 2.
PairInboxArgs ==
    {InboxOmitted, [given |-> TRUE, ref |-> 1, obj |-> NoObject]}
    \cup {[given |-> TRUE, ref |-> 0, obj |-> o] : o \in MalformedInboxes}

PairMirror(inbox) == IF inbox.ref = 1 THEN [inbox EXCEPT !.ref = 2] ELSE inbox

PairFirst ==
    /\ Len(handles) = 2
    /\ call[1].pc = "idle"
    /\ \E inbox \in PairInboxArgs, timeout \in TimeoutArgs :
          receiveEmailsStart(1, "receiveEmails", inbox, timeout)

PairSecond ==
    /\ call[1].pc # "idle"
    /\ call[2].pc = "idle"
    /\ receiveEmailsStart(2, "receiveEmail", PairMirror(call[1].inboxArg), call[1].timeoutArg)

PairSleepDone(t) == call[1].pc # "idle" /\ call[2].pc # "idle" /\ SleepDone(t)

\* The transport resolves the two calls' pending requests with the same response.
PairAnswers ==
    /\ call[1].pc = "requested"
    /\ call[2].pc = "requested"
    /\ \E d \in MockResponses :
          call' = [t \in Tasks |-> [call[t] EXCEPT !.pc = "responded", !.data = d]]
    /\ UNCHANGED <<sleepDelay, defaultTimeout, tagLength, now, handles, lastUsedInbox,
                   lastHave, mailbox, delivered, arg>>

\* The clock moves only between the two creations' pair and between the two
\* calls' corresponding steps, so that both read the same times.
PairTick ==
    /\ Len(handles) \in {0, 2}
    /\ call[1].pc = call[2].pc
    /\ call[1].queries = call[2].queries
    /\ Tick

NextPair ==
    \/ HavePairInbox
    \/ PairFirst
    \/ PairSecond
    \/ \E t \in Tasks : PairSleepDone(t)
    \/ PairAnswers
    \/ \E t \in Tasks : HandleResponse(t)
    \/ PairTick

SpecPair == Init /\ [][NextPair]_vars

(***************************************************************************)
(* SpecLive: one task's receiveEmails calls under every sleepDelay the      *)
(* constructor accepts, a negative number included (it only rejects 0, for *)
(* which it takes the default).  Fairness: a timer that was set fires, the *)
(* transport resolves every request, and a resolved await is resumed.      *)
(***************************************************************************)
LiveSleepDelays == ConfigSleepDelays \cup {-1}

InitLive ==
    /\ \E d \in LiveSleepDelays, dt \in ConfigDefaultTimeouts, tl \in ConfigTagLengths :
          constructor(d, dt, tl)
    /\ now = 1
    /\ handles = <<>>
    /\ lastHave = NoHave
    /\ mailbox = <<>>
    /\ call = [t \in Tasks |-> IdleCall]
    /\ delivered = <<>>
    /\ arg = <<>>

LiveCall ==
    \E kind \in CallKinds, inbox \in InboxArgs, timeout \in TimeoutArgs :
        receiveEmailsStart(1, kind, inbox, timeout)

NextLive ==
    \/ HaveFirstInbox
    \/ LiveCall
    \/ SleepDone(1)
    \/ TransportAnswers(1)
    \/ HandleResponse(1)

SpecLive ==
    /\ InitLive
    /\ [][NextLive]_vars
    /\ WF_vars(SleepDone(1))
    /\ WF_vars(TransportAnswers(1))
    /\ WF_vars(HandleResponse(1))

(***************************************************************************)
(* SpecRebind: calls made without an inbox argument, one at a time, while   *)
(* haveInbox may run at any await of a call.                               *)
(***************************************************************************)
RebindCall ==
    \E kind \in CallKinds, timeout \in TimeoutArgs :
        receiveEmailsStart(1, kind, InboxOmitted, timeout)

NextRebind ==
    \/ HaveInboxCall
    \/ RebindCall
    \/ SleepDone(1)
    \/ TransportAnswers(1)
    \/ HandleResponse(1)
    \/ Tick

SpecRebind == Init /\ [][NextRebind]_vars

(***************************************************************************)
(* SpecCodec: haveInbox applied once to an address drawn from CodecInputs. *)
(***************************************************************************)
CodecPrefixes == {<<>>, <<"x">>, <<"x","-">>, <<"-">>}
CodecNamespaces == {<<"n","s">>, <<"a","B">>, <<"7">>}
CodecSeparators == {<<".">>, <<"-">>, <<>>, <<"\n">>, <<".",".">>}
CodecTags == {<<"t","a","g","1","2","3">>, <<"T">>, <<"0","z">>}
CodecDomains ==
    {InboxDomain,
     <<"@","i","n","b","o","x","-","t","e","s","t","m","a","i","l","-","a","p","p">>,
     <<"@","i","n","b","o","x",".","t","e","s","t","m","a","i","l",".","a","p">>,
     <<"@","b",".","c","o","m">>}
CodecSuffixes == {<<>>, <<".","e","v","i","l",".","c","o","m">>, <<"x">>}

CodecInputs ==
    {p \o n \o sep \o tg \o d \o x :
        p \in CodecPrefixes, n \in CodecNamespaces, sep \in CodecSeparators,
        tg \in CodecTags, d \in CodecDomains, x \in CodecSuffixes}
    \cup {<<>>,
          <<"n","o","t","-","a","n","-","e","m","a","i","l">>,
          AddrForeign,
          <<"a","b","c",".","d","e","f">> \o InboxDomain
              \o <<".","e","v","i","l",".","c","o","m">>}

InitCodec ==
    /\ \E d \in ConfigSleepDelays, dt \in ConfigDefaultTimeouts, tl \in ConfigTagLengths :
          constructor(d, dt, tl)
    /\ now = 1
    /\ handles = <<>>
    /\ lastHave = NoHave
    /\ mailbox = <<>>
    /\ call = [t \in Tasks |-> IdleCall]
    /\ delivered = <<>>
    /\ arg \in CodecInputs

HaveInboxArg == ~lastHave.called /\ haveInbox(arg)

NextCodec == HaveInboxArg

SpecCodec == InitCodec /\ [][NextCodec]_vars

(***************************************************************************)
(* Properties.                                                             *)
(***************************************************************************)
\* The address format of the documentation: namespace.tag@inbox.testmail.app.
ClaimDomain ==
    <<"@","i","n","b","o","x",".","t","e","s","t","m","a","i","l",".","a","p","p">>

ClaimAddress(namespace, tag) == namespace \o <<".">> \o tag \o ClaimDomain

IsAlnumString(s) == Len(s) >= 1 /\ \A i \in 1..Len(s) : s[i] \in AlnumClass

\* s is, as a whole, <alphanumerics>.<alphanumerics>@inbox.testmail.app.
WellFormedAddress(s) ==
    \E k \in 1..Len(s) :
        LET e == Len(s) - Len(ClaimDomain)
        IN  /\ s[k] = "."
            /\ k < e
            /\ IsAlnumString(SubStr(s, 1, k - 1))
            /\ IsAlnumString(SubStr(s, k + 1, e - k))
            /\ SubStr(s, e + 1, Len(ClaimDomain)) = ClaimDomain

\* The first position at or after `from` where s holds character ch (0: none).
FirstIndex(s, ch, from) ==
    IF \E i \in from..Len(s) : s[i] = ch
    THEN CHOOSE i \in from..Len(s) : s[i] = ch /\ \A j \in from..(i - 1) : s[j] # ch
    ELSE 0

\* A response of result 'success' with one or more emails.
ClaimSuccessWithEmails(data) == data.result = "success" /\ Len(data.emails) >= 1

CeilDiv(a, b) == (a + b - 1) \div b

\* C1 (as claimed): no email is skipped.  Once the watermark of the inbox has
\* passed the arrival time of an email that arrived after the inbox was
\* created, no later query can return that email, so a call must already
\* have returned it.
C1_NoEmailSkipped ==
    \A i \in DOMAIN mailbox :
        ( /\ lastHave.called
          /\ lastHave.inbox = 1
          /\ mailbox[i].namespace = handles[1].namespace
          /\ mailbox[i].tag = handles[1].tag
          /\ mailbox[i].timestamp > lastHave.created
          /\ mailbox[i].timestamp < handles[1].timestamp )
        => 1 \in delivered[i]

\* C2: the list a receiveEmails call returns holds no email that an earlier
\* call on the same inbox object has returned.
C2_NoEmailReturnedTwice ==
    [][\A t \in Tasks :
          (call[t].pc = "responded" /\ call'[t].pc = "returned")
          => \A i \in Range(call'[t].result) : call[t].inbox \notin delivered[i]]_vars

\* C2's case: a call has returned an email after an earlier call on the same
\* inbox object had returned another one.
C2_Witness ==
    \E t \in Tasks : \E i, j \in DOMAIN delivered :
        /\ call[t].pc = "returned"
        /\ i \in Range(call[t].result)
        /\ j \notin Range(call[t].result)
        /\ call[t].inbox \in delivered[j]

\* C3: a call whose budget is T seconds (T > 0) never issues more than
\* ceil(T*1000 / sleepDelay) queries, waits again only while it has issued
\* fewer, and has issued exactly that many when it fails with EmailTimeout.
C3_TimeoutAfterExactlyCeilPolls ==
    \A t \in Tasks :
        LET c == call[t]
            n == CeilDiv(c.budget, sleepDelay)
        IN  /\ (c.pc = "sleeping" /\ c.queries = 0
                  /\ c.timeoutArg.given /\ c.timeoutArg.value > 0)
               => c.budget = c.timeoutArg.value * 1000
            /\ c.budget > 0
               => /\ c.queries <= n
                  /\ c.pc = "sleeping" => c.queries < n
                  /\ (c.pc = "failed" /\ c.error = "EmailTimeout") => c.queries = n

\* C3's case: a timeout of two poll intervals has ended in EmailTimeout after
\* two queries.
C3_Witness ==
    \E t \in Tasks :
        /\ call[t].pc = "failed"
        /\ call[t].error = "EmailTimeout"
        /\ call[t].budget = 2 * sleepDelay
        /\ call[t].queries = 2

\* C4: the step that judges a success response with one or more emails ends
\* the call: receiveEmails returns that response's list unchanged, the
\* watermark of the polled inbox becomes the current time, and the call has
\* no further wait and no query in flight.
C4_FirstSuccessEndsCall ==
    [][\A t \in Tasks :
          (/\ call[t].pc = "responded"
           /\ call'[t].pc # "responded"
           /\ ClaimSuccessWithEmails(call[t].data))
          => /\ call'[t].pc = "returned"
             /\ call[t].kind = "receiveEmails" => call'[t].result = call[t].data.emails
             /\ handles'[call[t].inbox].timestamp = now'
             /\ call'[t].queries = call[t].queries
             /\ call'[t].waits = call[t].waits
             /\ call'[t].request = NoRequest]_vars

\* C4's case: receiveEmails has returned a list of two emails after its first
\* query, and the watermark is the current time, later than the creation.
C4_Witness ==
    \E t \in Tasks :
        /\ call[t].pc = "returned"
        /\ call[t].kind = "receiveEmails"
        /\ call[t].result = <<2, 1>>
        /\ call[t].queries = 1
        /\ handles[call[t].inbox].timestamp = now
        /\ now > 1

\* C5: the step that judges any other response (a failure, or success with
\* zero emails) changes no inbox object, returns nothing, raises no error of
\* its own, and leads to the next wait while budget is left and to
\* EmailTimeout otherwise, whichever of the two kinds the response is.
C5_NotYetResponsesKeepPolling ==
    [][\A t \in Tasks :
          (/\ call[t].pc = "responded"
           /\ call'[t].pc # "responded"
           /\ ~ClaimSuccessWithEmails(call[t].data))
          => /\ handles' = handles
             /\ call'[t].result = <<>>
             /\ call'[t].queries = call[t].queries
             /\ IF call[t].currentTimeout > 0
                THEN call'[t].pc = "sleeping" /\ call'[t].error = ""
                ELSE call'[t].pc = "failed" /\ call'[t].error = "EmailTimeout"]_vars

\* C5's case: a call polled again after a failure response and now holds a
\* success response with zero emails.
C5_Witness ==
    \E t \in Tasks :
        /\ call[t].pc = "responded"
        /\ call[t].notYet = "failure"
        /\ call[t].queries = 2
        /\ call[t].data = Response("success", <<>>)

\* C6: a call made without an inbox argument before any haveInbox succeeded,
\* or with an object that lacks namespace, tag or timestamp, has failed with
\* NoInboxAvailable without a wait and without a query.
C6_NoInboxFailsBeforePolling ==
    \A t \in Tasks :
        LET c == call[t]
            o == c.inboxArg.obj
        IN  (/\ c.pc # "idle"
             /\ c.queries = 0
             /\ \/ ~c.inboxArg.given /\ handles = <<>>
                \/ /\ c.inboxArg.given
                   /\ c.inboxArg.ref = 0
                   /\ (o.namespace = <<>> \/ o.tag = <<>> \/ o.timestamp = 0))
            => /\ c.pc = "failed"
               /\ c.error = "NoInboxAvailable"
               /\ c.waits = 0
               /\ c.request = NoRequest

\* C6's case: an object without a timestamp was handed over while a current
\* inbox existed, and the call failed.
C6_Witness ==
    \E t \in Tasks :
        /\ call[t].error = "NoInboxAvailable"
        /\ call[t].inboxArg.given
        /\ call[t].inboxArg.obj.timestamp = 0
        /\ handles # <<>>

\* C7 (as claimed): haveInbox fails with InvalidAddressFormat for every
\* address that is not, as a whole, <alphanumerics>.<alphanumerics>@inbox.testmail.app.
C7_RejectsEveryMalformedAddress ==
    (lastHave.called /\ lastHave.arg # <<>> /\ ~WellFormedAddress(lastHave.arg))
    => lastHave.error = "InvalidAddressFormat"

\* C8 (as claimed): when haveInbox(email) succeeds, the inbox's email is the
\* address supplied, its namespace the text before the first '.', and its
\* tag the text between that '.' and the '@'.
C8_InboxMatchesSuppliedAddress ==
    (lastHave.called /\ lastHave.arg # <<>> /\ lastHave.error = "")
    => LET s == lastHave.arg
           k == FirstIndex(s, ".", 1)
           a == FirstIndex(s, "@", k + 1)
           h == handles[lastHave.inbox]
       IN  /\ k > 0
           /\ a > 0
           /\ h.email = s
           /\ h.namespace = SubStr(s, 1, k - 1)
           /\ h.tag = SubStr(s, k + 1, a - k - 1)

\* C9: for namespace and tag non-empty alphanumeric strings, haveInbox of
\* the composed address succeeds with exactly that namespace and that tag.
C9_RoundTrip ==
    \A ns \in CodecNamespaces, tg \in CodecTags :
        (lastHave.called /\ lastHave.arg = ClaimAddress(ns, tg))
        => /\ IsAlnumString(ns) /\ IsAlnumString(tg)
           /\ lastHave.error = ""
           /\ handles[lastHave.inbox].namespace = ns
           /\ handles[lastHave.inbox].tag = tg

\* C9's case: haveInbox("ns.tag123@inbox.testmail.app") has returned an inbox.
C9_Witness ==
    /\ lastHave.called
    /\ lastHave.arg = ClaimAddress(<<"n","s">>, <<"t","a","g","1","2","3">>)
    /\ lastHave.inbox = 1
    /\ handles[1].tag = <<"t","a","g","1","2","3">>

\* C10: the email of every inbox object is namespace.tag@inbox.testmail.app
\* built from the object's own namespace and tag.
C10_AddressMatchesNamespaceAndTag ==
    \A h \in 1..Len(handles) :
        handles[h].email = ClaimAddress(handles[h].namespace, handles[h].tag)

\* C10's case: two inboxes exist, the later one made from a supplied address
\* with text after the domain, and a receiveEmail call on it has returned.
C10_Witness ==
    \E t \in Tasks :
        /\ Len(handles) = 2
        /\ lastHave.arg = AddrEvil
        /\ lastHave.inbox = 2
        /\ call[t].pc = "returned"
        /\ call[t].kind = "receiveEmail"
        /\ call[t].inbox = 2

\* C11: a successful haveInbox makes the inbox it returns the current one; a
\* call started without an inbox argument polls the inbox of the most recent
\* successful haveInbox, a call started with an inbox polls that inbox; and
\* each query carries the namespace and tag of the inbox the call polls.
C11_CurrentInboxIsLatestHaveInbox ==
    [][/\ Len(handles') = Len(handles) + 1
          => /\ lastUsedInbox' = Len(handles')
             /\ lastHave'.inbox = Len(handles')
       /\ \A t \in Tasks :
             /\ (call[t].pc \in {"idle", "returned", "failed"} /\ call'[t].pc = "sleeping")
                => call'[t].inbox = IF call'[t].inboxArg.given
                                    THEN call'[t].inboxArg.ref
                                    ELSE Len(handles)
             /\ (call[t].pc = "sleeping" /\ call'[t].pc = "requested")
                => /\ call'[t].request.namespace = handles[call[t].inbox].namespace
                   /\ call'[t].request.tag = handles[call[t].inbox].tag]_vars

\* C11's case: a query is in flight for the first inbox, whose tag is not
\* that of the current inbox, the second one.
C11_Witness ==
    \E t \in Tasks :
        /\ Len(handles) = 2
        /\ lastUsedInbox = 2
        /\ call[t].pc = "requested"
        /\ call[t].inbox = 1
        /\ call[t].request.tag = handles[1].tag
        /\ handles[1].tag # handles[2].tag

\* C12: no step lowers the watermark of an inbox object, whichever tasks'
\* calls run on it and however they interleave, and the watermark is never
\* below the time the object was created.
C12_WatermarkNeverDecreases ==
    [][/\ \A h \in 1..Len(handles) : handles'[h].timestamp >= handles[h].timestamp
       /\ lastHave'.inbox > 0
          => handles'[lastHave'.inbox].timestamp >= lastHave'.created]_vars

\* C12's case: both tasks' calls have returned from the same inbox, the later
\* return by a call whose query was built before the earlier one moved the
\* watermark, which now is the clock, past the creation time.
C12_Witness ==
    /\ call[1].pc = "returned"
    /\ call[2].pc = "returned"
    /\ call[1].inbox = call[2].inbox
    /\ \E i \in DOMAIN delivered : i \in Range(call[1].result) \cap Range(call[2].result)
    /\ handles[call[1].inbox].timestamp = now
    /\ now > lastHave.created

C14_EveryCallTerminates ==
    /\ [](/\ call[1].pc = "failed" => call[1].error \in {"NoInboxAvailable", "EmailTimeout"}
          /\ call[1].pc = "returned" => Len(call[1].result) >= 1)
    /\ (call[1].pc \in {"sleeping", "requested", "responded"})
          ~> (call[1].pc \in {"returned", "failed"})

\* C15: no step changes the namespace, tag or email of an existing inbox
\* object; its watermark changes only in the step in which a call on it
\* returns on a success response with emails; and the step in which a call
\* fails changes no inbox object at all.
C15_FailedCallLeavesInboxUnchanged ==
    [][/\ \A h \in 1..Len(handles) :
             /\ handles'[h].namespace = handles[h].namespace
             /\ handles'[h].tag = handles[h].tag
             /\ handles'[h].email = handles[h].email
             /\ handles'[h].timestamp # handles[h].timestamp
                => \E t \in Tasks :
                      /\ call[t].pc = "responded"
                      /\ call'[t].pc = "returned"
                      /\ call[t].inbox = h
                      /\ ClaimSuccessWithEmails(call[t].data)
       /\ \A t \in Tasks :
             (call'[t].pc = "failed" /\ call'[t] # call[t]) => handles' = handles]_vars

\* C15's case: a call on the latest inbox has failed with EmailTimeout after
\* two queries, the clock has moved on, and the watermark is still the
\* creation time.
C15_Witness ==
    \E t \in Tasks :
        /\ call[t].pc = "failed"
        /\ call[t].error = "EmailTimeout"
        /\ call[t].queries = 2
        /\ call[t].inbox = lastHave.inbox
        /\ handles[call[t].inbox].timestamp = lastHave.created
        /\ now > lastHave.created

\* C16: within a call every query follows a wait of its own (a call that
\* waits has made one wait more than queries, a call with a query out or a
\* response in hand as many waits as queries; a query is sent only by the
\* step that ends a wait), a further wait starts only by the step that
\* judges the response, and while a query is out the call holds no response.
C16_PollingIsSequential ==
    [][\A t \in Tasks :
          LET c == call[t]
              d == call'[t]
              active == {"sleeping", "requested", "responded"}
          IN  /\ d.queries <= d.waits
              /\ d.pc = "sleeping" => d.waits = d.queries + 1 /\ d.data = NoData
              /\ d.pc \in {"requested", "responded"} => d.waits = d.queries
              /\ d.pc = "requested" => d.data = NoData
              /\ (c.pc \in active /\ d.queries # c.queries)
                 => c.pc = "sleeping" /\ d.pc = "requested" /\ d.queries = c.queries + 1
              /\ (c.pc \in active /\ d.waits # c.waits)
                 => c.pc = "responded" /\ d.pc = "sleeping" /\ d.waits = c.waits + 1]_vars

\* C16's case: the second wait of a call is running after its first query
\* was answered without emails.
C16_Witness ==
    \E t \in Tasks :
        /\ call[t].pc = "sleeping"
        /\ call[t].waits = 2
        /\ call[t].queries = 1
        /\ call[t].notYet = "empty"

\* C17: two tasks' calls on one inbox object are not kept apart.  A task
\* with no call running can start one whatever the other task's call on the
\* same inbox is doing; every query reads the watermark the object holds at
\* that moment, whichever call set it; and every call that returns sets it.
C17_ConcurrentCallsShareWatermark ==
    /\ [](\A t \in Tasks :
            (handles # <<>> /\ call[t].pc \in {"idle", "returned", "failed"})
            => ENABLED receiveEmailsStart(t, "receiveEmails", InboxOmitted, TimeoutOmitted))
    /\ [][\A t \in Tasks :
            /\ (call[t].pc = "sleeping" /\ call'[t].pc = "requested")
               => call'[t].request.timestamp_from = handles[call[t].inbox].timestamp
            /\ (call[t].pc = "responded" /\ call'[t].pc = "returned")
               => handles'[call[t].inbox].timestamp = now']_vars

\* C17's case: two receiveEmails calls that ran at the same time on the same
\* inbox have both returned the same email.
C17_Witness ==
    \E i \in DOMAIN mailbox :
        /\ call[1].kind = "receiveEmails"
        /\ call[2].kind = "receiveEmails"
        /\ call[1].pc = "returned"
        /\ call[2].pc = "returned"
        /\ call[1].inbox = 1
        /\ call[2].inbox = 1
        /\ i \in Range(call[1].result)
        /\ i \in Range(call[2].result)

\* C18 (as claimed): the budget of a call is the timeout argument times 1000
\* whenever the argument is supplied, 0 included, in which case the call
\* fails with EmailTimeout without a wait or a query; it is defaultTimeout
\* only when the argument is omitted.
C18_BudgetIsSuppliedTimeout ==
    \A t \in Tasks :
        LET c == call[t]
        IN  (c.pc # "idle" /\ c.queries = 0 /\ c.error # "NoInboxAvailable")
            => IF c.timeoutArg.given
               THEN /\ c.budget = c.timeoutArg.value * 1000
                    /\ c.timeoutArg.value = 0
                       => c.pc = "failed" /\ c.error = "EmailTimeout" /\ c.waits = 0
               ELSE c.budget = defaultTimeout

\* C19: a call keeps the inbox it resolved when it started.  While it runs,
\* whatever haveInbox does to the current inbox, each of its queries carries
\* the namespace, tag and watermark of that inbox, and its return moves the
\* watermark of that inbox and changes no other inbox object.
C19_CallKeepsResolvedInbox ==
    [][\A t \in Tasks :
          LET c == call[t]
              d == call'[t]
          IN  /\ c.pc \in {"sleeping", "requested", "responded"} => d.inbox = c.inbox
              /\ (c.pc = "sleeping" /\ d.pc = "requested")
                 => /\ d.request.namespace = handles[c.inbox].namespace
                    /\ d.request.tag = handles[c.inbox].tag
                    /\ d.request.timestamp_from = handles[c.inbox].timestamp
              /\ (c.pc = "responded" /\ d.pc = "returned")
                 => /\ handles'[c.inbox].timestamp = now'
                    /\ \A h \in 1..Len(handles) : h # c.inbox => handles'[h] = handles[h]]_vars

\* C19's case: a call started when the first inbox was the current one has
\* returned after haveInbox had made a second inbox current: the first
\* inbox's watermark is the time of the return, the second's still its
\* earlier creation time.
C19_Witness ==
    /\ Len(handles) = 2
    /\ lastUsedInbox = 2
    /\ call[1].pc = "returned"
    /\ call[1].inbox = 1
    /\ call[1].queries = 2
    /\ handles[1].timestamp = now
    /\ handles[2].timestamp < now
    /\ handles[1].tag # handles[2].tag

\* C20: the current inbox changes only in a step in which haveInbox succeeds
\* and to the inbox that call returns; a haveInbox that fails with
\* InvalidAddressFormat changes neither the current inbox nor any inbox
\* object; and no step of a receiveEmails or receiveEmail call changes which
\* inbox is current.
C20_CurrentInboxChangesOnlyByHaveInbox ==
    [][/\ lastUsedInbox' # lastUsedInbox
          => /\ Len(handles') = Len(handles) + 1
             /\ lastUsedInbox' = Len(handles')
             /\ lastHave'.error = ""
             /\ lastHave'.inbox = lastUsedInbox'
       /\ (lastHave' # lastHave /\ lastHave'.error = "InvalidAddressFormat")
          => lastUsedInbox' = lastUsedInbox /\ handles' = handles
       /\ call' # call => lastUsedInbox' = lastUsedInbox]_vars

\* C20's case: a call on the first inbox has returned while the second was
\* the current one, then haveInbox rejected an address; the second inbox is
\* still current and holds the watermark of its creation.
C20_Witness ==
    /\ lastHave.called
    /\ lastHave.error = "InvalidAddressFormat"
    /\ lastHave.arg = AddrForeign
    /\ lastUsedInbox = 2
    /\ call[1].pc = "returned"
    /\ call[1].inbox = 1
    /\ handles[1].timestamp = now
    /\ handles[2].timestamp < now

====
